---- MODULE Spec2Model ----
(***************************************************************************)
(* go-aria2: the aria2c process supervisor (Aria2.Start / Stop / monitor), *)
(* the package-level Download entry point and its polling loop             *)
(* (monitorDownload).  Callers are goroutines that call the API; every     *)
(* successful Start spawns one monitor goroutine.                          *)
(***************************************************************************)
EXTENDS Integers, Sequences, FiniteSets

\* ------------------------------------------------------------------ bounds
NumCallers == 2      \* concurrent goroutines calling the API
MaxWork    == 3      \* API calls begun plus status polls answered, in all
MaxProcs   == 2      \* exec.Cmd objects (Start attempts that reach line 382)
MaxClock   == 1      \* the last reading of the clock, which starts at 0
NumPorts   == 4      \* the ports from DefaultPort on that a listener can bind

Callers == 1..NumCallers
Procs   == 1..MaxProcs
\* the goroutine started by `go a.monitor()` of the Start that created cmd i
MonId(i) == NumCallers + i
Monitors == {MonId(i) : i \in Procs}
CmdOfMon(m) == m - NumCallers

\* the package-level API: Download and Stop
Ops == {"Download", "Stop"}

VARIABLES
    mu,         \* a.mu: 0 when unlocked, else the goroutine holding it
    running,    \* a.running
    cmd,        \* a.cmd: 0 is nil, else the exec.Cmd created by a Start
    ctx,        \* a.ctx: 0 is the context of newDaemon, else that of a Start
    cancelled,  \* the contexts whose cancel function has been called
    proc,       \* per exec.Cmd: "none" | "new" (Process == nil) | "alive" |
                \* "exited" (dead, Wait not yet returned) | "reaped"
    probed,     \* the exec.Cmds whose Start saw waitForRPC return nil
    pc,         \* per caller: position in the call it is making
    work,       \* API calls begun plus status polls answered so far
    callback,   \* per caller, while in Download: the callback is not nil
    polls,      \* per caller, while in Download: what TellStatus returned so far
    cbs,        \* per caller, while in Download: what the callback was handed so far
    ret,        \* the latest return of an API call, with the locals it ended with
    mpc,        \* per monitor goroutine: position
    mcmd,       \* per monitor goroutine, while it runs: the a.cmd it read
    now,        \* the clock: what time.Now().UnixNano() returned last
    id,         \* per caller: the ID of its outstanding request, "" when none
    wire,       \* per caller: the response on its way to it, if any
    occupied,   \* the ports other processes listen on
    first,      \* findAvailablePort: the port of the outermost call
    port,       \* findAvailablePort: the port of the innermost call; a.port
    listener,   \* findAvailablePort: the port its listener holds, 0 when none
    fpc         \* findAvailablePort: position

vars == <<mu, running, cmd, ctx, cancelled, proc, probed, pc, work,
          callback, polls, cbs, ret, mpc, mcmd,
          now, id, wire, occupied, first, port, listener, fpc>>

supervisor == <<running, cmd, ctx, cancelled, proc, probed>>
download   == <<callback, polls, cbs>>
monitors   == <<mpc, mcmd>>
calls      == <<now, id, wire>>
finder     == <<occupied, first, port, listener, fpc>>

\* ------------------------------------------------------------ data types
\* DownloadStatus.Status values
Statuses == {"waiting", "active", "paused", "complete", "error", "removed"}
ErrorCodes    == {"1", "24"}
ErrorMessages == {"auth failed"}
\* DownloadStatus.Files, each File by its Path
FileLists     == {<<>>, <<"/d/a", "/d/b">>}

DownloadStatus(s, code, msg, files) ==
    [Status |-> s, ErrorCode |-> code, ErrorMessage |-> msg, Files |-> files]

NoStatus == DownloadStatus("", "", "", <<>>)

\* what the engine may answer to aria2.tellStatus after it answered `prev`
EngineStatuses(prev) ==
    IF prev = "removed"
    THEN {DownloadStatus("removed", "", "", <<>>)}
    ELSE {DownloadStatus(s, "", "", <<>>) : s \in {"waiting", "active", "paused", "removed"}}
         \cup {DownloadStatus("complete", "0", "", f) : f \in FileLists}
         \cup {DownloadStatus("error", c, m, <<>>) : c \in ErrorCodes, m \in ErrorMessages}

\* a return of an API call: the call, the error kind ("nil" for a nil
\* error), the parts the error text is formatted from, the returned path,
\* and the polled status monitorDownload returned on (NoStatus otherwise)
Return(o, err, text, path, st) ==
    [op |-> o, err |-> err, text |-> text, path |-> path, on |-> st]
NoReturn == Return("", "none", <<>>, "", NoStatus)

\* errors of Aria2.Call and of the JSON decoding in AddUri / TellStatus
CallErrors == {"http", "jsonrpc", "decode"}

LiveProcs == {i \in Procs : proc[i] = "alive"}

\* newDaemon, line 341: the port the search starts from
DefaultPort == 6800
\* the ports a listener can bind; beyond them net.Listen fails for every port
Ports == DefaultPort..(DefaultPort + NumPorts - 1)

\* jsonRPCError, lines 513-516: what the engine reports in an error object
RpcErrors == {[Code |-> -32601, Message |-> "Method not found"]}

\* what comes back for a request.  kind: "transport" (httpClient.Do fails),
\* "unreadable" (the body cannot be read), "garbage" (the body is no JSON-RPC
\* envelope) or "envelope" (jsonRPCResponse, lines 505-510).  Error is <<>>
\* for a nil *jsonRPCError, else the one error object; Result is the one
\* DownloadStatus the raw payload decodes to, <<>> when it decodes to none.
Response(kind, error, result) == [kind |-> kind, Error |-> error, Result |-> result]

\* no response is on its way
NoResponse == Response("none", <<>>, <<>>)

\* what may come back for aria2.tellStatus after the engine answered `prev`
Responses(prev) ==
    {Response(k, <<>>, <<>>) : k \in {"transport", "unreadable", "garbage"}}
    \cup {Response("envelope", <<e>>, <<>>) : e \in RpcErrors}
    \cup {Response("envelope", <<>>, <<st>>) : st \in EngineStatuses(prev)}
    \cup {Response("envelope", <<>>, <<>>)}

\* ------------------------------------------------------------------ Init
Init ==
    /\ mu = 0
    /\ running = FALSE
    /\ cmd = 0
    /\ ctx = 0
    /\ cancelled = {}
    /\ proc = [i \in Procs |-> "none"]
    /\ probed = {}
    /\ pc = [c \in Callers |-> "idle"]
    /\ work = 0
    /\ callback = [c \in Callers |-> FALSE]
    /\ polls = [c \in Callers |-> <<>>]
    /\ cbs = [c \in Callers |-> <<>>]
    /\ ret = NoReturn
    /\ mpc = [i \in Procs |-> "off"]
    /\ mcmd = [i \in Procs |-> 0]
    /\ now = 0
    /\ id = [c \in Callers |-> ""]
    /\ wire = [c \in Callers |-> NoResponse]
    \* newDaemon has run with no port taken: a.port is DefaultPort
    /\ occupied = {}
    /\ first = DefaultPort
    /\ port = DefaultPort
    /\ listener = 0
    /\ fpc = "returned"

\* ------------------------------------------------------- calls and returns
\* the package-level API, lines 320-335: Download(url, dir, out, callback)
\* with or without a callback, and Stop()
Begin(c) ==
    /\ pc[c] = "idle"
    /\ work < MaxWork
    /\ work' = work + 1
    /\ \/ /\ \E cb \in BOOLEAN : callback' = [callback EXCEPT ![c] = cb]
          /\ pc' = [pc EXCEPT ![c] = "isrunning"]
       \/ /\ pc' = [pc EXCEPT ![c] = "stop"]
          /\ UNCHANGED callback
    /\ UNCHANGED <<mu, supervisor, polls, cbs, ret, monitors>>
    /\ UNCHANGED <<calls, finder>>

\* Download of caller c returns (path, err); its locals end with it
DownloadReturns(c, err, text, path, st) ==
    /\ pc' = [pc EXCEPT ![c] = "idle"]
    /\ ret' = Return("Download", err, text, path, st)
    /\ polls' = [polls EXCEPT ![c] = <<>>]
    /\ cbs' = [cbs EXCEPT ![c] = <<>>]
    /\ callback' = [callback EXCEPT ![c] = FALSE]

\* the last status a Download polled
Last(c) == IF polls[c] = <<>> THEN NoStatus ELSE polls[c][Len(polls[c])]

\* --------------------------------------------------------------- Aria2.Start
\* a Start that skips the check of a.running
AlreadyRunningUnchecked == FALSE

\* Start, line 369: the check of a.running
AlreadyRunning == running

\* Start, lines 366-382: lock, the running check, ExtractBinary, the fresh
\* context and the exec.Cmd.  The lock stays held on the way to cmd.Start().
\* Once MaxProcs exec.Cmds exist, a Start of a stopped supervisor can only
\* fail in ExtractBinary.
StartEnter(c) ==
    /\ pc[c] = "start"
    /\ mu = 0
    /\ IF AlreadyRunning
       THEN /\ DownloadReturns(c, "already_running", <<>>, "", NoStatus)
            /\ UNCHANGED <<mu, supervisor>>
       ELSE \/ /\ DownloadReturns(c, "extract_binary", <<>>, "", NoStatus)
               /\ UNCHANGED <<mu, supervisor>>
            \/ /\ \E i \in Procs :
                    /\ proc[i] = "none"
                    /\ \A j \in Procs : j < i => proc[j] # "none"
                    /\ ctx' = i
                    /\ cmd' = i
                    /\ proc' = [proc EXCEPT ![i] = "new"]
               /\ mu' = c
               /\ pc' = [pc EXCEPT ![c] = "launch"]
               /\ UNCHANGED <<running, cancelled, probed, ret, callback, polls, cbs>>
    /\ UNCHANGED <<work, monitors>>
    /\ UNCHANGED <<calls, finder>>

\* a Start that returns with the lock still held
StillLocked(c) == c

\* Start, line 367: the deferred a.mu.Unlock() of goroutine c
Unlocked(c) == 0

\* Start, lines 390-392: a.cmd.Start()
StartLaunch(c) ==
    /\ pc[c] = "launch"
    /\ mu = c
    /\ \/ /\ DownloadReturns(c, "launch", <<>>, "", NoStatus)
          /\ mu' = Unlocked(c)
          /\ UNCHANGED proc
       \/ /\ proc' = [proc EXCEPT ![cmd] = "alive"]
          /\ pc' = [pc EXCEPT ![c] = "waitrpc"]
          /\ UNCHANGED <<mu, ret, callback, polls, cbs>>
    /\ UNCHANGED <<running, cmd, ctx, cancelled, probed, work, monitors>>
    /\ UNCHANGED <<calls, finder>>

\* waitForRPC, lines 468-495: what the select loop can end with.  A tick
\* whose dial fails changes nothing and is not a step of the model; the dial
\* succeeds when a subprocess listens on the port.
WaitForRPC ==
    IF ctx \in cancelled
    THEN {"cancelled"}
    ELSE {"timeout"} \cup (IF LiveProcs # {} THEN {"ready"} ELSE {})

\* a Start that ignores the error of waitForRPC
MarksRunningAlways(res) == TRUE

\* Start, lines 395-399: a.running is set only when waitForRPC returned nil
MarksRunning(res) == res = "ready"

\* Start, lines 395-405: a.waitForRPC(), then running, the monitor goroutine
\* and the deferred unlock
StartWaitRPC(c) ==
    /\ pc[c] = "waitrpc"
    /\ mu = c
    /\ mu' = Unlocked(c)
    /\ \E res \in WaitForRPC :
        /\ probed' = IF res = "ready" THEN probed \cup {cmd} ELSE probed
        /\ IF MarksRunning(res)
           THEN /\ running' = TRUE
                /\ mpc' = [mpc EXCEPT ![cmd] = "read"]
                /\ pc' = [pc EXCEPT ![c] = "adduri"]
                /\ UNCHANGED <<ret, callback, polls, cbs>>
           ELSE /\ DownloadReturns(c, "rpc_" \o res, <<>>, "", NoStatus)
                /\ UNCHANGED <<running, mpc>>
    /\ UNCHANGED <<cmd, ctx, cancelled, proc, work, mcmd>>
    /\ UNCHANGED <<calls, finder>>

\* ------------------------------------------------------------- the process
\* the supervised aria2c exits by itself
ProcExit(i) ==
    /\ proc[i] = "alive"
    /\ proc' = [proc EXCEPT ![i] = "exited"]
    /\ UNCHANGED <<mu, running, cmd, ctx, cancelled, probed, pc, work,
                   download, ret, monitors>>
    /\ UNCHANGED <<calls, finder>>

\* ------------------------------------------------------------ Aria2.monitor
\* monitor, line 410: the unsynchronised read of a.cmd
MonitorRead(i) ==
    /\ mpc[i] = "read"
    /\ mcmd' = [mcmd EXCEPT ![i] = cmd]
    /\ mpc' = [mpc EXCEPT ![i] = IF cmd = 0 THEN "done" ELSE "wait"]
    /\ UNCHANGED <<mu, supervisor, pc, work, download, ret>>
    /\ UNCHANGED <<calls, finder>>

\* exec.Cmd.Wait: blocks while the process lives, reaps it when it has
\* exited, and returns an error at once when the Cmd was not started or
\* Wait has already returned for it
WaitReturns(p) == p \in {"new", "exited", "reaped"}

\* a monitor that ends when Wait returns, without the call of Stop
AfterWaitReturn == "done"

\* monitor, line 412: after Wait the monitor goes on to a.Stop()
AfterWait == "stop"

\* monitor, line 411: a.cmd.Wait() returns
MonitorWait(i) ==
    /\ mpc[i] = "wait"
    /\ WaitReturns(proc[mcmd[i]])
    /\ proc' = [proc EXCEPT ![mcmd[i]] = IF @ = "exited" THEN "reaped" ELSE @]
    /\ mpc' = [mpc EXCEPT ![i] = AfterWait]
    /\ UNCHANGED <<mu, running, cmd, ctx, cancelled, probed, pc, work,
                   download, ret, mcmd>>
    /\ UNCHANGED <<calls, finder>>

\* ---------------------------------------------------------------- Aria2.Stop
\* os.Process.Kill: TRUE is a nil error.  A live process is killed unless the
\* system refuses; a process that exited and was not waited for takes the
\* signal or not, by platform; after Wait returned, Kill fails
\* (os.ErrProcessDone).
KillResults(p) ==
    CASE p = "alive"  -> {TRUE, FALSE}
      [] p = "exited" -> {TRUE, FALSE}
      [] OTHER        -> {FALSE}

\* a Stop that marks the supervisor stopped only when the kill succeeded
RunningAfterStopIfKilled(ok) == IF ok THEN FALSE ELSE running

\* Stop, line 420: a.running = false, whatever the kill at line 422 returns
RunningAfterStop(ok) == FALSE

\* Stop, lines 417-429, called by goroutine a (a caller or a monitor).  It
\* takes the lock, never blocks while it holds it and releases it on return:
\* one step.
Stop(a) ==
    /\ mu = 0
    /\ \E ok \in (IF cmd # 0 /\ proc[cmd] # "new" THEN KillResults(proc[cmd]) ELSE {TRUE}) :
        /\ running' = RunningAfterStop(ok)
        /\ proc' = IF cmd # 0 /\ proc[cmd] = "alive" /\ ok
                   THEN [proc EXCEPT ![cmd] = "exited"]
                   ELSE proc
        /\ \/ /\ a \in Callers
              /\ pc[a] = "stop"
              /\ pc' = [pc EXCEPT ![a] = "idle"]
              /\ ret' = Return("Stop", IF ok THEN "nil" ELSE "kill_failed", <<>>, "", NoStatus)
              /\ UNCHANGED mpc
           \/ /\ a \in Monitors
              /\ mpc[CmdOfMon(a)] = "stop"
              /\ mpc' = [mpc EXCEPT ![CmdOfMon(a)] = "done"]
              /\ UNCHANGED <<pc, ret>>
    /\ mcmd' = IF a \in Monitors THEN [mcmd EXCEPT ![CmdOfMon(a)] = 0] ELSE mcmd
    /\ UNCHANGED <<mu, cmd, ctx, cancelled, probed, work, download>>
    /\ UNCHANGED <<calls, finder>>

\* ------------------------------------------------------------------ Download
\* a Download that calls Start whatever IsRunning returned
AfterIsRunningAlwaysStart(r) == "start"

\* Download, lines 321-326: Start is called only when IsRunning returned
\* false; else the Download goes on to AddUri
AfterIsRunning(r) == IF r THEN "adduri" ELSE "start"

\* Download, line 321: aria2.IsRunning()
DlIsRunning(c) ==
    /\ pc[c] = "isrunning"
    /\ mu = 0
    /\ pc' = [pc EXCEPT ![c] = AfterIsRunning(running)]
    /\ UNCHANGED <<mu, supervisor, work, download, ret, monitors>>
    /\ UNCHANGED <<calls, finder>>

\* Download, lines 326-329: aria2.AddUri
DlAddUri(c) ==
    /\ pc[c] = "adduri"
    /\ \/ \E e \in CallErrors : DownloadReturns(c, e, <<>>, "", NoStatus)
       \/ /\ LiveProcs # {}
          /\ pc' = [pc EXCEPT ![c] = "poll"]
          /\ UNCHANGED <<ret, callback, polls, cbs>>
    /\ UNCHANGED <<mu, supervisor, work, monitors>>
    /\ UNCHANGED <<calls, finder>>

\* a loop that hands only the statuses it goes on polling after to the callback
CallbackUnlessFinal(c, st) ==
    IF callback[c] /\ st.Status \notin {"complete", "error"}
    THEN Append(cbs[c], st)
    ELSE cbs[c]

\* monitorDownload, lines 610-612: the callback, when there is one
Callback(c, st) == IF callback[c] THEN Append(cbs[c], st) ELSE cbs[c]

\* monitorDownload, lines 601-612 and 621-623: one round of the select; on a
\* tick TellStatus and, when it succeeds, the callback
DlPoll(c) ==
    /\ pc[c] = "poll"
    /\ IF ctx \in cancelled
       THEN /\ DownloadReturns(c, "ctx_cancelled", <<>>, "", NoStatus)
            /\ UNCHANGED work
       ELSE \/ /\ \E e \in CallErrors : DownloadReturns(c, e, <<>>, "", NoStatus)
               /\ UNCHANGED work
            \/ /\ LiveProcs # {}
               /\ work < MaxWork
               /\ work' = work + 1
               /\ \E st \in EngineStatuses(Last(c).Status) :
                    /\ polls' = [polls EXCEPT ![c] = Append(@, st)]
                    /\ cbs' = [cbs EXCEPT ![c] = Callback(c, st)]
               /\ pc' = [pc EXCEPT ![c] = "inspect"]
               /\ UNCHANGED <<ret, callback>>
    /\ UNCHANGED <<mu, supervisor, monitors>>
    /\ UNCHANGED <<calls, finder>>

\* an unrecovered panic has ended the program: no goroutine is left
Panicked == \E c \in Callers : pc[c] = "panicked"

\* an error text without the engine's message
DownloadErrorTextBare(st) == <<"download failed">>

\* the text of the error monitorDownload returns for status "error", line 619
DownloadErrorText(st) == <<"download failed: ", st.ErrorMessage>>

\* monitorDownload, lines 615-620: the switch on the polled status
DlInspect(c) ==
    /\ pc[c] = "inspect"
    /\ LET st == Last(c) IN
        CASE st.Status = "complete" ->
                IF Len(st.Files) = 0
                THEN \* index out of range: the panic ends the program
                     /\ pc' = [x \in Callers |-> "panicked"]
                     /\ mpc' = [i \in Procs |-> "panicked"]
                     /\ UNCHANGED <<ret, download>>
                ELSE /\ DownloadReturns(c, "nil", <<>>, st.Files[1], st)
                     /\ UNCHANGED mpc
          [] st.Status = "error" ->
                /\ DownloadReturns(c, "download_error", DownloadErrorText(st), "", st)
                /\ UNCHANGED mpc
          [] OTHER ->
                /\ pc' = [pc EXCEPT ![c] = "poll"]
                /\ UNCHANGED <<ret, download, mpc>>
    /\ UNCHANGED <<mu, supervisor, work, mcmd>>
    /\ UNCHANGED <<calls, finder>>

\* ---------------------------------------------------------------------- Next
Next ==
    \/ \E c \in Callers : Begin(c)
    \/ \E c \in Callers : StartEnter(c)
    \/ \E c \in Callers : StartLaunch(c)
    \/ \E c \in Callers : StartWaitRPC(c)
    \/ \E i \in Procs : ProcExit(i)
    \/ \E i \in Procs : MonitorRead(i)
    \/ \E i \in Procs : MonitorWait(i)
    \/ \E a \in Callers \cup Monitors : Stop(a)
    \/ \E c \in Callers : DlIsRunning(c)
    \/ \E c \in Callers : DlAddUri(c)
    \/ \E c \in Callers : DlPoll(c)
    \/ \E c \in Callers : DlInspect(c)

Spec == Init /\ [][Next]_vars

\* a step of the monitor goroutine of cmd i, lines 409-414
Monitor(i) == MonitorRead(i) \/ MonitorWait(i) \/ Stop(MonId(i))

\* The Go scheduler runs every runnable goroutine, and a goroutine waiting for
\* a free sync.Mutex gets it: each monitor goroutine takes its next step.
MonitorFairness == \A i \in Procs : WF_vars(Monitor(i))

FairSpec == Spec /\ MonitorFairness

\* the steps of caller c in which it takes, holds or releases a.mu
Locking(c) ==
    DlIsRunning(c) \/ StartEnter(c) \/ StartLaunch(c) \/ StartWaitRPC(c) \/ Stop(c)

\* A goroutine that calls IsRunning, Start or Stop gets the free lock;
\* cmd.Start() returns, and waitForRPC returns when its timeout fires at the
\* latest (line 475).
CallerFairness == \A c \in Callers : WF_vars(Locking(c))

LockFairSpec == Spec /\ MonitorFairness /\ CallerFairness

\* ---------------------------------------------------------------- Aria2.Call
\* The polling loops of concurrent Downloads, with each Call of TellStatus
\* taken apart: the request is sent, the response travels, Call returns.

\* the decimal digits
Digits == <<"0", "1", "2", "3", "4", "5", "6", "7", "8", "9">>

\* strconv.FormatInt(n, 10), line 523, and the verb %d, line 559
RECURSIVE FormatInt(_)
FormatInt(n) ==
    IF n < 0 THEN "-" \o FormatInt(-n)
    ELSE IF n < 10 THEN Digits[n + 1]
    ELSE FormatInt(n \div 10) \o Digits[(n % 10) + 1]

\* what Call, AddUri and TellStatus return: the error kind ("nil" for a nil
\* error), the parts its text is formatted from, and the result
Outcome(err, text, result) == [err |-> err, text |-> text, result |-> result]

\* a Call that does not look at the error object of the envelope
CallIgnoringError(r) ==
    CASE r.kind = "transport"  -> Outcome("http", <<"HTTP request failed">>, <<>>)
      [] r.kind = "unreadable" -> Outcome("read", <<"reading the response failed">>, <<>>)
      [] r.kind = "garbage"    -> Outcome("unmarshal", <<"parsing the response failed">>, <<>>)
      [] OTHER                 -> Outcome("nil", <<>>, r.Result)

\* Call, lines 539-562: the outcome of the one exchange
Call(r) ==
    CASE r.kind = "transport"  -> Outcome("http", <<"HTTP request failed">>, <<>>)
      [] r.kind = "unreadable" -> Outcome("read", <<"reading the response failed">>, <<>>)
      [] r.kind = "garbage"    -> Outcome("unmarshal", <<"parsing the response failed">>, <<>>)
      [] r.Error # <<>>        -> Outcome("jsonrpc",
                                          <<"JSON-RPC error ", FormatInt(r.Error[1].Code),
                                            ": ", r.Error[1].Message>>,
                                          <<>>)
      [] OTHER                 -> Outcome("nil", <<>>, r.Result)

\* TellStatus, lines 585-593: the error of Call as it is, else the decoding
TellStatus(r) ==
    LET o == Call(r) IN
    IF o.err # "nil" THEN o
    ELSE IF o.result = <<>> THEN Outcome("decode", <<"parsing the status failed">>, <<>>)
    ELSE o

\* every caller is in a Download with a callback that has submitted to the
\* running engine and enters its polling loop; the watcher of the subprocess
\* waits
CallInit ==
    /\ mu = 0
    /\ running = TRUE
    /\ cmd = 1
    /\ ctx = 1
    /\ cancelled = {}
    /\ proc = [i \in Procs |-> IF i = 1 THEN "alive" ELSE "none"]
    /\ probed = {1}
    /\ pc = [c \in Callers |-> "poll"]
    /\ work = NumCallers
    /\ callback = [c \in Callers |-> TRUE]
    /\ polls = [c \in Callers |-> <<>>]
    /\ cbs = [c \in Callers |-> <<>>]
    /\ ret = NoReturn
    /\ mpc = [i \in Procs |-> IF i = 1 THEN "wait" ELSE "off"]
    /\ mcmd = [i \in Procs |-> IF i = 1 THEN 1 ELSE 0]
    /\ now = 0
    /\ id = [c \in Callers |-> ""]
    /\ wire = [c \in Callers |-> NoResponse]
    /\ occupied = {}
    /\ first = DefaultPort
    /\ port = DefaultPort
    /\ listener = 0
    /\ fpc = "returned"

\* monitorDownload, lines 603-604, and Call, lines 519-539: on a tick of the
\* ticker the request is built and sent.  Its ID is the clock reading, which
\* is that of the reading before or a later one.
CallSend(c) ==
    /\ pc[c] = "poll"
    /\ ctx \notin cancelled
    /\ \E t \in now..MaxClock :
        /\ now' = t
        /\ id' = [id EXCEPT ![c] = FormatInt(t)]
    /\ pc' = [pc EXCEPT ![c] = "call"]
    /\ UNCHANGED <<mu, supervisor, work, download, ret, monitors, wire, finder>>

\* the engine, or the transport in its place, answers the request of c
Respond(c) ==
    /\ pc[c] = "call"
    /\ wire[c] = NoResponse
    /\ \E r \in Responses(Last(c).Status) :
        /\ r.Result # <<>> => work < MaxWork
        /\ work' = IF r.Result # <<>> THEN work + 1 ELSE work
        /\ wire' = [wire EXCEPT ![c] = r]
    /\ UNCHANGED <<mu, supervisor, pc, download, ret, monitors, now, id, finder>>

\* Call, lines 539-562, TellStatus, lines 586-593, and monitorDownload, lines
\* 605-612: the response is classified; on an error the Download returns it,
\* its locals left as they are; else the callback is handed the status
CallReceive(c) ==
    /\ pc[c] = "call"
    /\ wire[c] # NoResponse
    /\ LET o == TellStatus(wire[c]) IN
        IF o.err # "nil"
        THEN /\ pc' = [pc EXCEPT ![c] = "idle"]
             /\ ret' = Return("Download", o.err, o.text, "", NoStatus)
             /\ UNCHANGED download
        ELSE /\ polls' = [polls EXCEPT ![c] = Append(@, o.result[1])]
             /\ cbs' = [cbs EXCEPT ![c] = Callback(c, o.result[1])]
             /\ pc' = [pc EXCEPT ![c] = "inspect"]
             /\ UNCHANGED <<ret, callback>>
    /\ id' = [id EXCEPT ![c] = ""]
    /\ wire' = [wire EXCEPT ![c] = NoResponse]
    /\ UNCHANGED <<mu, supervisor, work, monitors, now, finder>>

CallNext ==
    \/ \E c \in Callers : CallSend(c)
    \/ \E c \in Callers : Respond(c)
    \/ \E c \in Callers : CallReceive(c)
    \/ \E c \in Callers : DlInspect(c)

CallSpec == CallInit /\ [][CallNext]_vars

\* ---------------------------------------------------------- findAvailablePort
\* newDaemon's search for a.port, before any caller runs.  The ports other
\* processes hold are those held when the search began.

\* a search that tries every second port
SkipPort(p) == p + 2

\* findAvailablePort, line 436: the port the recursive call is made with
NextPort(p) == p + 1

\* findAvailablePort is called with some port while any ports are taken
PortInit ==
    /\ mu = 0
    /\ running = FALSE
    /\ cmd = 0
    /\ ctx = 0
    /\ cancelled = {}
    /\ proc = [i \in Procs |-> "none"]
    /\ probed = {}
    /\ pc = [c \in Callers |-> "idle"]
    /\ work = 0
    /\ callback = [c \in Callers |-> FALSE]
    /\ polls = [c \in Callers |-> <<>>]
    /\ cbs = [c \in Callers |-> <<>>]
    /\ ret = NoReturn
    /\ mpc = [i \in Procs |-> "off"]
    /\ mcmd = [i \in Procs |-> 0]
    /\ now = 0
    /\ id = [c \in Callers |-> ""]
    /\ wire = [c \in Callers |-> NoResponse]
    /\ occupied \in SUBSET Ports
    /\ first \in Ports
    /\ port = first
    /\ listener = 0
    /\ fpc = "listen"

\* findAvailablePort, lines 433-437: net.Listen on the port.  It fails when
\* the port is taken, and then the search calls itself with the next port;
\* past the last port it fails for every port and the recursion has no end.
PortListen ==
    /\ fpc = "listen"
    /\ IF port \notin Ports
       THEN /\ fpc' = "overflow"
            /\ UNCHANGED <<port, listener>>
       ELSE IF port \in occupied
       THEN /\ port' = NextPort(port)
            /\ UNCHANGED <<fpc, listener>>
       ELSE /\ listener' = port
            /\ fpc' = "close"
            /\ UNCHANGED port
    /\ UNCHANGED <<mu, supervisor, pc, work, download, ret, monitors, calls,
                   occupied, first>>

\* findAvailablePort, lines 439-440: the listener is closed, the port returned
PortClose ==
    /\ fpc = "close"
    /\ listener' = 0
    /\ fpc' = "returned"
    /\ UNCHANGED <<mu, supervisor, pc, work, download, ret, monitors, calls,
                   occupied, first, port>>

PortNext == PortListen \/ PortClose

PortSpec == PortInit /\ [][PortNext]_vars

\* ============================================================== the claims

\* caller c makes a step of its own call
Steps(c) == pc'[c] # pc[c] /\ pc'[c] # "panicked"

\* C1: a Start entered while the supervisor is Running returns the
\* already-running error, launches no subprocess and leaves running, the
\* subprocess handle, the context and every subprocess as they were.
C1_SecondStartFails ==
    [][\A c \in Callers :
        (pc[c] = "start" /\ running /\ Steps(c)) =>
            /\ pc'[c] = "idle"
            /\ ret' = Return("Download", "already_running", <<>>, "", NoStatus)
            /\ running' /\ cmd' = cmd /\ ctx' = ctx /\ proc' = proc /\ mpc' = mpc
            /\ mu' = 0]_vars

\* C1 witness: a Start has just failed with the already-running error and
\* the supervisor is Running with its subprocess
C1_Witness ==
    /\ ret.err = "already_running"
    /\ running /\ cmd # 0 /\ proc[cmd] = "alive"

\* a Stop step of goroutine a (a caller's Stop call or a monitor's)
StopStep(a) ==
    \/ a \in Callers /\ pc[a] = "stop" /\ pc'[a] = "idle"
    \/ a \in Monitors /\ mpc[CmdOfMon(a)] = "stop" /\ mpc'[CmdOfMon(a)] = "done"

\* C2: Stop called by a caller while the supervisor is stopped and owns no
\* live subprocess (never started, stopped before, or stopped by the watcher
\* after the subprocess exited) returns a nil error and leaves it stopped.
C2_StopIdempotent ==
    [][\A c \in Callers :
        (StopStep(c) /\ ~running /\ (cmd = 0 \/ proc[cmd] # "alive")) =>
            (ret'.err = "nil" /\ ~running')]_vars

\* C3: once the owned subprocess has exited while the supervisor is Running,
\* the supervisor becomes not running, unless a panic has ended the program.
C3_ExitLeadsToStopped ==
    (running /\ cmd # 0 /\ proc[cmd] \in {"exited", "reaped"})
        ~> (~running \/ Panicked)

\* C3 witness: the watcher has stopped the supervisor after the subprocess
\* exited by itself; no caller ever called Stop
C3_Witness ==
    /\ ~running /\ cmd # 0
    /\ proc[cmd] = "reaped"
    /\ mpc[cmd] = "done"
    /\ \A c \in Callers : pc[c] \notin {"stop"}
    /\ ret.op # "Stop"
    /\ work = 1

\* the status names of a sequence of polled statuses
Names(sts) == [k \in 1..Len(sts) |-> sts[k].Status]

\* C4: every successful poll is handed to the callback, once and in poll
\* order, the poll that reports the final status included; no poll follows a
\* poll that reported complete or error; and on complete with a reported
\* file, Download returns the first file path and a nil error.
C4_CallbackPerPoll ==
    [][\A c \in Callers :
        /\ cbs'[c] = (IF callback'[c] THEN polls'[c] ELSE <<>>)
        /\ (pc[c] = "poll" /\ pc'[c] = "inspect") =>
              /\ Last(c).Status \notin {"complete", "error"}
              /\ Len(polls'[c]) = Len(polls[c]) + 1
        /\ (pc[c] = "inspect" /\ Steps(c) /\ Last(c).Status = "complete"
                /\ Last(c).Files # <<>>) =>
              /\ pc'[c] = "idle"
              /\ ret' = Return("Download", "nil", <<>>, Last(c).Files[1], Last(c))
              /\ work' = work]_vars

\* C4 witness: a Download with a callback has polled active and then
\* complete with two files, and the callback has been handed both
C4_Witness ==
    \E c \in Callers :
        /\ pc[c] = "inspect"
        /\ callback[c]
        /\ Names(polls[c]) = <<"active", "complete">>
        /\ Last(c).Files = <<"/d/a", "/d/b">>
        /\ cbs[c] = polls[c]

\* part is one of the parts an error text was formatted from
Contains(text, part) == \E k \in 1..Len(text) : text[k] = part

Terminal == {"complete", "error", "removed"}

\* C6: once a poll has reported complete, error or removed, no further poll
\* is made for the task.
C6_NoPollAfterTerminal ==
    \A c \in Callers :
        \A k \in 1..(Len(polls[c]) - 1) : polls[c][k].Status \notin Terminal

\* C7: on a poll that reports complete, Download returns: the no-output-file
\* error when the status has no file, else the first file path.
C7_CompleteReturns ==
    [][\A c \in Callers :
        (pc[c] = "inspect" /\ pc'[c] # pc[c] /\ Last(c).Status = "complete") =>
            /\ pc'[c] = "idle"
            /\ IF Last(c).Files = <<>>
               THEN ret'.err = "no_output_file" /\ ret'.path = ""
               ELSE ret'.err = "nil" /\ ret'.path = Last(c).Files[1]]_vars

\* C8: a Stop (a caller's or the watcher's) made while a Download is in its
\* polling loop leaves the lifecycle context of that loop cancelled.
C8_StopCancelsContext ==
    [][\A a \in Callers \cup Monitors :
        (StopStep(a) /\ \E c \in Callers : pc[c] = "poll") =>
            ctx \in cancelled']_vars

\* C9: whenever no Start or Stop is in progress and the supervisor is not
\* running, no subprocess launched by it is alive.
C9_StoppedOwnsNoLiveProcess ==
    (mu = 0 /\ ~running) => LiveProcs = {}

\* C10 as claimed: while running, the handle refers to a live subprocess and
\* the port answered a readiness probe during the Start that set running.
C10_RunningImpliesLive ==
    running => (cmd # 0 /\ proc[cmd] = "alive" /\ cmd \in probed)

\* C10 as amended: while running, the handle refers to the subprocess that the
\* Start that set running launched, which was live then and may have exited
\* since, and the port answered a readiness probe during that Start.
C10_RunningImpliesLaunchedAndProbed ==
    running =>
        /\ cmd # 0
        /\ proc[cmd] \in {"alive", "exited", "reaped"}
        /\ cmd \in probed
        /\ ctx = cmd

\* C10 witness: the supervisor is running and its subprocess has exited
C10_Witness ==
    running /\ cmd # 0 /\ proc[cmd] = "exited" /\ cmd \in probed

\* C11: of concurrent Downloads against a stopped supervisor whose subprocess
\* launches and becomes ready, none returns the already-running error: a
\* Download that enters Start while the supervisor is Running goes on to
\* submit.
C11_NoAlreadyRunningError ==
    [][\A c \in Callers :
        (pc[c] = "start" /\ running /\ cmd \in LiveProcs /\ cmd \in probed
            /\ Steps(c)) => pc'[c] = "adduri"]_vars

\* C12: every Stop, a caller's or the watcher's, leaves running false; a
\* caller's Stop that fails to kill the live subprocess returns the kill
\* error, and running is false all the same.
C12_StopAlwaysStops ==
    [][\A a \in Callers \cup Monitors :
        StopStep(a) =>
            /\ ~running'
            /\ (a \in Callers /\ cmd # 0 /\ proc'[cmd] = "alive") =>
                  ret' = Return("Stop", "kill_failed", <<>>, "", NoStatus)]_vars

\* C12 witness: a caller's Stop has returned the kill error, the subprocess
\* is still alive and the supervisor is not running
C12_Witness ==
    /\ ret.op = "Stop" /\ ret.err = "kill_failed"
    /\ cmd # 0 /\ proc[cmd] = "alive" /\ cmd \in probed
    /\ ~running

\* C13: no two requests that are outstanding at the same time carry the same
\* ID.
C13_OutstandingIdsDistinct ==
    \A c, d \in Callers :
        (c # d /\ id[c] # "" /\ id[d] # "") => id[c] # id[d]

\* C14: when a port from the starting port on is free, the search returns,
\* and what it returns is the smallest port from the starting port on that
\* is free; its listener holds only a port that was free, and none on return.
C14_SmallestFreePort ==
    /\ fpc = "returned" =>
        /\ port \in Ports /\ port >= first
        /\ port \notin occupied
        /\ \A q \in first..(port - 1) : q \in occupied
        /\ listener = 0
    /\ (\E q \in Ports : q >= first /\ q \notin occupied) => fpc # "overflow"
    /\ listener # 0 => (listener = port /\ listener \notin occupied)

\* C14 witness: with the starting port and the next one taken, the search
\* has returned the third
C14_Witness ==
    /\ fpc = "returned"
    /\ first = DefaultPort
    /\ occupied = {DefaultPort, DefaultPort + 1}
    /\ port = DefaultPort + 2
    /\ listener = 0

\* C15: a Download that returns from its polling loop, with a path or with
\* the error of the task, leaves the supervisor as it was: running, the
\* subprocess handle, the context, every subprocess, the port, the lock and
\* the watchers; and a Download that finds the supervisor Running goes on to
\* submit, and neither that step nor the submit changes the supervisor.
C15_SupervisorOutlivesDownload ==
    [][\A c \in Callers :
        /\ (pc[c] = "inspect" /\ pc'[c] = "idle") =>
              /\ supervisor' = supervisor
              /\ mu' = mu /\ monitors' = monitors /\ port' = port
        /\ (pc[c] = "isrunning" /\ running /\ Steps(c)) =>
              /\ pc'[c] = "adduri"
              /\ supervisor' = supervisor /\ monitors' = monitors /\ port' = port
        /\ (pc[c] = "adduri" /\ Steps(c)) =>
              /\ supervisor' = supervisor /\ monitors' = monitors /\ port' = port]_vars

\* C15 witness: a Download has returned a path, and a Download has since
\* submitted to the one subprocess there ever was, which is still Running
C15_Witness ==
    /\ ret.op = "Download" /\ ret.err = "nil" /\ ret.path = "/d/a"
    /\ running /\ cmd # 0 /\ proc[cmd] = "alive"
    /\ \A i \in Procs : i # cmd => proc[i] = "none"
    /\ \E c \in Callers :
        /\ pc[c] = "poll"
        /\ \A d \in Callers : d # c => pc[d] = "idle"
    /\ work = MaxWork

\* the errors Start returns
StartErrors == {"already_running", "extract_binary", "launch",
                "rpc_timeout", "rpc_cancelled"}

\* the positions of a caller that has not reached the polling loop
BeforePolling == {"idle", "isrunning", "start", "launch", "waitrpc", "adduri", "stop"}

\* C16: a Download reaches the submit only from IsRunning having returned true
\* or from a Start whose readiness probe was answered; it reaches the polling
\* loop only from an answered submit; a Start that fails or a submit that
\* fails ends the Download with that error and an empty path; and before the
\* polling loop nothing has been polled or handed to the callback.
C16_OrderedFailFast ==
    [][\A c \in Callers :
        /\ (pc'[c] = "adduri" /\ pc[c] # "adduri") =>
              \/ pc[c] = "isrunning" /\ running
              \/ pc[c] = "waitrpc" /\ running' /\ cmd \in probed' /\ mu' = 0
        /\ (pc'[c] = "poll" /\ pc[c] # "poll") =>
              \/ pc[c] = "adduri" /\ LiveProcs # {}
              \/ pc[c] = "inspect"
        /\ (pc[c] \in {"start", "launch", "waitrpc"} /\ pc'[c] = "idle") =>
              /\ ret'.op = "Download" /\ ret'.err \in StartErrors
              /\ ret'.path = "" /\ work' = work
        /\ (pc[c] = "adduri" /\ pc'[c] = "idle") =>
              /\ ret'.op = "Download" /\ ret'.err \in CallErrors
              /\ ret'.path = "" /\ work' = work
        /\ pc'[c] \in BeforePolling => (polls'[c] = <<>> /\ cbs'[c] = <<>>)]_vars

\* C16 witness: the one Download made has returned the readiness timeout of
\* its Start; nothing was submitted or polled
C16_Witness ==
    /\ ret = Return("Download", "rpc_timeout", <<>>, "", NoStatus)
    /\ work = 1
    /\ ~running /\ cmd # 0 /\ cmd \notin probed
    /\ \A c \in Callers : pc[c] = "idle" /\ polls[c] = <<>> /\ cbs[c] = <<>>

\* C17: a Start that is waiting for the readiness of the port while a Stop
\* has been called ends with the cancelled error, and that Stop does not
\* have to wait for the Start: the Stop can take the lock.
C17_StopCancelsStartWait ==
    [][\A c, d \in Callers :
        (pc[c] = "waitrpc" /\ pc[d] = "stop") =>
            /\ mu = 0
            /\ Steps(c) => (pc'[c] = "idle" /\ ret'.err = "rpc_cancelled")]_vars

\* C18: a caller that holds the lock releases it, unless a panic has ended
\* the program; and a caller waiting for the lock in IsRunning, at the entry
\* of Start or in Stop, and a watcher waiting for it in Stop, gets it.
C18_NoDeadlock ==
    /\ \A c \in Callers : (mu = c) ~> (mu # c \/ Panicked)
    /\ \A c \in Callers : (pc[c] = "isrunning") ~> (pc[c] # "isrunning")
    /\ \A c \in Callers : (pc[c] = "start") ~> (pc[c] # "start")
    /\ \A c \in Callers : (pc[c] = "stop") ~> (pc[c] # "stop")
    /\ \A i \in Procs : (mpc[i] = "stop") ~> (mpc[i] # "stop")

\* C18 witness: the watcher of an earlier subprocess is calling Stop while a
\* Start holds the lock in its readiness wait
C18_Witness ==
    \E i \in Procs, c \in Callers :
        /\ mpc[i] = "stop"
        /\ mu = c /\ pc[c] = "waitrpc"
        /\ cmd # i

\* C19: a Call returns on the one response to its one request and the
\* Download acts on it at once: on a transport failure, an unreadable or
\* undecodable body, an envelope with an error object (the error text then
\* holds its code and its message) or a result that decodes to no status,
\* the Download returns that error with an empty path, with no callback for
\* the tick and no poll after it; on any other response the status of the
\* result is appended to the polls and handed to the callback.
C19_OneExchangeClassified ==
    [][\A c \in Callers :
        /\ (pc[c] = "call" /\ Steps(c)) =>
            LET r == wire[c] IN
            /\ r # NoResponse
            /\ id'[c] = "" /\ wire'[c] = NoResponse
            /\ IF r.kind # "envelope" \/ r.Error # <<>> \/ r.Result = <<>>
               THEN /\ pc'[c] = "idle"
                    /\ ret'.op = "Download" /\ ret'.path = "" /\ ret'.on = NoStatus
                    /\ ret'.err = (CASE r.kind = "transport"  -> "http"
                                     [] r.kind = "unreadable" -> "read"
                                     [] r.kind = "garbage"    -> "unmarshal"
                                     [] r.Error # <<>>        -> "jsonrpc"
                                     [] OTHER                 -> "decode")
                    /\ (r.kind = "envelope" /\ r.Error # <<>>) =>
                          /\ Contains(ret'.text, FormatInt(r.Error[1].Code))
                          /\ Contains(ret'.text, r.Error[1].Message)
                    /\ cbs'[c] = cbs[c] /\ polls'[c] = polls[c]
               ELSE /\ pc'[c] = "inspect"
                    /\ polls'[c] = Append(polls[c], r.Result[1])
                    /\ cbs'[c] = Append(cbs[c], r.Result[1])
                    /\ ret' = ret
        /\ (pc[c] = "call" /\ pc'[c] = "call") => id'[c] = id[c]
        /\ pc[c] = "idle" => (pc'[c] \in {"idle", "panicked"} /\ id'[c] = "")]_vars

\* C19 witness: after one poll that was answered and handed to the callback,
\* the next was answered with an error object and the Download returned it
C19_Witness ==
    /\ ret.op = "Download" /\ ret.err = "jsonrpc"
    /\ ret.text = <<"JSON-RPC error ", "-32601", ": ", "Method not found">>
    /\ \E c \in Callers :
        /\ pc[c] = "idle"
        /\ Names(polls[c]) = <<"active">>
        /\ cbs[c] = polls[c]
        /\ id[c] = "" /\ wire[c] = NoResponse

\* C20: the Stop of the watcher of an earlier subprocess, made while the
\* supervisor is Running with a later one, leaves it Running and leaves every
\* subprocess as it was.
C20_WatcherLeavesLaterSubprocess ==
    [][\A i \in Procs :
        (StopStep(MonId(i)) /\ cmd # i /\ running /\ cmd \in probed) =>
            (running' /\ proc' = proc)]_vars

====
